---- MODULE Spec2Model ----
(***************************************************************************)
(* Recording lifecycle and model orchestration of chirp-stt:               *)
(*   ChirpApp (main.py)              toggle / start / stop / timeout /     *)
(*                                   the single-worker transcription queue *)
(*   AudioCapture (audio_capture.py) the input stream and its frame buffer *)
(*   ParakeetManager (parakeet_manager.py)                                 *)
(*                                   the engine handle and its idle monitor*)
(* Threads: the hotkey callers of toggle_recording, one threading.Timer    *)
(* thread per armed max-duration timer, the executor's worker threads, the *)
(* idle monitor thread and the capture callback.                           *)
(***************************************************************************)
EXTENDS Integers, Sequences, FiniteSets, TLC

(* ------------------------------ bounds -------------------------------- *)
\* hotkey invocations of toggle_recording over a run
MaxToggles == 3
\* frames the capture callback appends during one session
MaxFrames == 1
\* the positive idle timeout tried (model_timeout), in clock ticks
MaxTimeout == 1
\* characters of a text handed to TextInjector.inject
MaxTextLen == 3
\* ParakeetManager.transcribe calls over a run of the manager
MaxCalls == 2
\* TextInjector.inject calls over a run of the injector
MaxInjections == 2
\* jobs the worker runs while the toggles and the capture callback run
MaxJobs == 1

(* ------------------------- program constants -------------------------- *)
\* ThreadPoolExecutor(max_workers=1, ...)
max_workers_two == 1 + 1
max_workers == 1

\* threads that call toggle_recording from the hotkey hook
Hotkeys == {1, 2}
NumHotkeys == Cardinality(Hotkeys)
\* every successful start arms at most one timer; see StartRecording
MaxTimers == MaxToggles + 1
TimerThreads == (NumHotkeys + 1)..(NumHotkeys + MaxTimers)
Threads == Hotkeys \cup TimerThreads
Workers == 1..max_workers

VARIABLES
    max_recording_duration, \* config.max_recording_duration (seconds, 0 disables)
    timeout,                \* ParakeetManager._timeout (0 or negative: never unload)
    assets,                 \* the model files ParakeetManager._load_model looks for
    exit_code,              \* the status the process exited with, 0 while it runs
    registered,             \* run() registered the hotkey
    recording,              \* ChirpApp._recording
    lock,                   \* ChirpApp._lock: the thread holding it, 0 when free
    stop_timer,             \* ChirpApp._stop_timer: a timer thread, 0 for None
    pc,                     \* where each hotkey / timer thread stands
    ntoggles,               \* hotkey invocations so far
    ntimers,                \* threading.Timer objects created so far
    last,                   \* the last completed toggle_recording call: its caller, the
                            \* state it branched on, what it did, the sounds, the jobs
    stream,                 \* AudioCapture._stream: "none", "open" (created, not started), "active"
    frames,                 \* AudioCapture._frames
    delivered,              \* the frames the callback appended since the last start
    nstreams,               \* input streams created so far
    queue,                  \* the executor's work queue
    nsubmitted,             \* executor.submit calls so far
    wpc,                    \* where each worker thread stands
    wjob,                   \* the job a worker runs
    wmodel,                 \* transcribe's local `model`
    wtext,                  \* _transcribe_and_inject's local `text`
    results,                \* the jobs that ended, in the order they ended
    model,                  \* ParakeetManager._model: an instance id, 0 for None
    nloads,                 \* engine instances loaded so far
    idle,                   \* time.time() - _last_access: 0 after an access, then timeout + 1
    mpc,                    \* where the monitor thread stands
    conf,                   \* the configuration read from config.json
    load_result,            \* ConfigManager.load: "pending", "accepted", "rejected"
    load_error,             \* the field the validation error names, "none" without one
    built,                  \* ChirpApp.__init__ went on to build its components
    platform,               \* sys.platform
    paste_mode,             \* TextInjector._paste_mode
    clipboard_behavior,     \* TextInjector._clipboard_behavior
    style,                  \* TextInjector._style: "none" or "uppercase"
    jtext,                  \* the text transcribe returned to _transcribe_and_inject
    jpc,                    \* where that job stands after the return
    log,                    \* the records handed to the logger, oldest first
    copies,                 \* the arguments of the pyperclip.copy calls, oldest first
    keys,                   \* the calls made on the keyboard manager, oldest first
    clear_timer,            \* the clipboard-clear timer: "none", "armed", "fired"
    mlock,                  \* ParakeetManager._lock: "free", or the thread holding it
    cpc,                    \* where each caller of transcribe stands
    cmodel,                 \* each caller's local `model` in transcribe, 0 before it is set
    cout,                   \* how each caller's last transcribe call ended
    ncalls,                 \* transcribe calls so far
    clip,                   \* what the system clipboard holds
    ctimers,                \* the clipboard-clear timer of each inject call
    ninj,                   \* inject calls so far
    ipc,                    \* where the running inject call stands
    pastes,                 \* what each paste keystroke pasted, oldest first
    alock,                  \* AudioCapture._lock: "free" or who holds it
    cbpc                    \* where the stream's callback thread stands

cfgVars == <<max_recording_duration, timeout, assets, exit_code, registered>>
appVars == <<recording, lock, stop_timer, pc, ntoggles, ntimers, last>>
capVars == <<stream, frames, delivered, nstreams>>
exeVars == <<queue, nsubmitted, wpc, wjob, wmodel, wtext, results>>
mdlVars == <<model, nloads, idle, mpc>>
loadVars == <<conf, load_result, load_error, built>>
injVars == <<platform, paste_mode, clipboard_behavior, style, jtext, jpc, log, copies, keys,
             clear_timer>>
mgrVars == <<mlock, cpc, cmodel, cout, ncalls>>
clipVars == <<clip, ctimers, ninj, ipc, pastes>>
lockVars == <<alock, cbpc>>
auxVars == <<loadVars, injVars, mgrVars, clipVars, lockVars>>
vars == <<cfgVars, appVars, capVars, exeVars, mdlVars, auxVars>>

NoJob == [id |-> 0, wave |-> <<>>]

(* ------------------------------- text ---------------------------------- *)
\* a text is a sequence of characters: a letter, a blank, a punctuation mark
\* and the control character U+0007 (bell), written "BEL"
Chars == {"a", " ", ",", "BEL"}
\* str.isspace: the bell is not whitespace, so strip and \s+ leave it alone
IsSpace(c) == c = " "
\* str.isprintable
IsPrintable(c) == c # "BEL"

\* str.strip(): the text without its leading and trailing whitespace
RECURSIVE LStrip(_)
LStrip(s) == IF s # <<>> /\ IsSpace(Head(s)) THEN LStrip(Tail(s)) ELSE s
RECURSIVE RStrip(_)
RStrip(s) == IF s # <<>> /\ IsSpace(s[Len(s)]) THEN RStrip(SubSeq(s, 1, Len(s) - 1)) ELSE s
Strip(s) == RStrip(LStrip(s))

\* every text of at most MaxTextLen characters
Texts == UNION {[1..n -> Chars] : n \in 0..MaxTextLen}

IsPunct(c) == c = ","

\* re.sub(r"\s+", " ", text): a run of whitespace becomes one blank
RECURSIVE Collapse(_)
Collapse(s) ==
    IF Len(s) < 2 THEN s
    ELSE IF IsSpace(s[1]) /\ IsSpace(s[2]) THEN Collapse(Tail(s))
    ELSE <<s[1]>> \o Collapse(Tail(s))

\* re.sub(r"\s+([,.;!?])", r"\1", text) after Collapse: the blank in front of a
\* punctuation mark is dropped
RECURSIVE Tighten(_)
Tighten(s) ==
    IF Len(s) < 2 THEN s
    ELSE IF IsSpace(s[1]) /\ IsPunct(s[2]) THEN Tighten(Tail(s))
    ELSE <<s[1]>> \o Tighten(Tail(s))

\* _normalize_punctuation
NormalizePunctuation(s) == Strip(Tighten(Collapse(s)))

\* str.upper()
Upper(s) == [i \in DOMAIN s |-> IF s[i] = "a" THEN "A" ELSE s[i]]

\* StyleGuide.apply for a guide with at most the uppercase flag set
StyleApply(st, s) == IF st = "uppercase" THEN Upper(s) ELSE s

\* TextInjector.process with no word overrides configured (_override_pattern
\* is None, so _apply_word_overrides returns its argument)
Process(st, s) ==
    IF Strip(s) = <<>> THEN <<>> ELSE StyleApply(st, NormalizePunctuation(Strip(s)))

\* the texts ParakeetManager.transcribe returns for a non-empty waveform:
\* whitespace only, words with whitespace around them
Transcripts == {<<" ">>, <<" ", "a">>}

(* ------------------------------ startup -------------------------------- *)
\* ChirpApp.__init__: `except ModelNotPreparedError: ... raise SystemExit(1)`;
\* main() then never reaches app.run()
StartupExitIgnored(a) == 1 - 1
StartupExit(a) == IF a = "missing" THEN 1 ELSE 0

\* `self._timeout > 0`: the condition under which the monitor thread is
\* started and under which its loop unloads
EvictionEnabledAlways == TRUE
EvictionEnabled == timeout > 0

\* ParakeetManager.__init__: `self._model = self._load_model()`, the instance
\* the constructor leaves in the handle (0 for none, when the load raised)
ConstructorLoadDeferred(a) == 1 - 1
ConstructorLoad(a) == IF a = "present" THEN 1 ELSE 0

(* ----------------------------- Init ----------------------------------- *)
\* main(), ChirpApp.__init__ and ParakeetManager.__init__: the engine is
\* loaded in the constructor, which ends the process when the model files are
\* missing; the monitor thread is started only for a positive timeout; run()
\* registers the hotkey.
AppStartWith(durations) ==
    /\ max_recording_duration \in durations
    /\ timeout \in {-1, 0, MaxTimeout}
    /\ assets \in {"present", "missing"}
    /\ exit_code = StartupExit(assets)
    /\ registered = (exit_code = 0)
    /\ recording = FALSE
    /\ lock = 0
    /\ stop_timer = 0
    /\ pc = [t \in Threads |-> IF t \in Hotkeys THEN "idle" ELSE "unused"]
    /\ ntoggles = 0
    /\ ntimers = 0
    /\ last = [by |-> "none", pre |-> FALSE, op |-> "none", fb |-> <<>>, jobs |-> 0]
    /\ stream = "none"
    /\ frames = <<>>
    /\ delivered = <<>>
    /\ nstreams = 0
    /\ queue = <<>>
    /\ nsubmitted = 0
    /\ wpc = [w \in Workers |-> "idle"]
    /\ wjob = [w \in Workers |-> NoJob]
    /\ wmodel = [w \in Workers |-> 0]
    /\ wtext = [w \in Workers |-> <<>>]
    /\ results = <<>>
    /\ model = ConstructorLoad(assets)
    /\ nloads = ConstructorLoad(assets)
    /\ idle = 0
    /\ mpc = IF exit_code = 0 /\ EvictionEnabled THEN "sleep" ELSE "off"

\* the application started with the timer disabled or with the default limit
AppStart == AppStartWith({0, 45})

\* the configuration the application runs with when config.json sets nothing
DefaultConf ==
    [threads |-> 0, clipboard_clear_delay |-> 1, paste_mode |-> "ctrl",
     model_timeout |-> 300, max_recording_duration |-> 45,
     start_sound_path |-> "none", stop_sound_path |-> "none"]

\* ChirpApp.__init__ has loaded its configuration and built its components
ConfigDone ==
    /\ conf = DefaultConf
    /\ load_result = "accepted"
    /\ load_error = "none"
    /\ built = TRUE

\* no job has reached the injector yet
InjectorIdle ==
    /\ platform = "win32"
    /\ paste_mode = "ctrl"
    /\ clipboard_behavior = TRUE
    /\ style = "none"
    /\ jtext = <<>>
    /\ jpc = "idle"
    /\ log = <<>>
    /\ copies = <<>>
    /\ keys = <<>>
    /\ clear_timer = "none"

\* no thread is inside ParakeetManager.transcribe
ManagerIdle ==
    /\ mlock = "free"
    /\ cpc = [c \in {"c1", "c2"} |-> "idle"]
    /\ cmodel = [c \in {"c1", "c2"} |-> 0]
    /\ cout = [c \in {"c1", "c2"} |-> "none"]
    /\ ncalls = 0

\* no inject call has been made: the clipboard holds what the user put there
ClipboardIdle ==
    /\ clip = [kind |-> "other", job |-> 0]
    /\ ctimers = [k \in 1..MaxInjections |-> "none"]
    /\ ninj = 0
    /\ ipc = "idle"
    /\ pastes = <<>>

\* AudioCapture.__init__: self._lock = threading.Lock(); no stream, so no callback
CaptureLockIdle ==
    /\ alock = "free"
    /\ cbpc = "idle"

Init ==
    /\ AppStart /\ ConfigDone /\ InjectorIdle /\ ManagerIdle /\ ClipboardIdle
    /\ CaptureLockIdle

(* ------------------------- ChirpApp: toggle --------------------------- *)
\* `with self._lock:` blocks until no thread holds the lock
LockFreeIgnored == TRUE
LockFree == lock = 0

\* the end of the `with self._lock:` block: thread t releases the lock
ReleaseSkipped(t) == t
Release(t) == 0

\* who calls toggle_recording on thread t
Caller(t) == IF t \in Hotkeys THEN "hotkey" ELSE "timer"

\* where a thread goes when its toggle_recording call returns
Returned(t) == IF t \in Hotkeys THEN "idle" ELSE "done"

\* toggle_recording up to the branch: take the lock, read _recording
Enter(t) ==
    /\ LockFree
    /\ lock' = t
    /\ pc' = [pc EXCEPT ![t] = IF ~recording THEN "start" ELSE "stop"]

\* the hotkey hook calls toggle_recording
HotkeyToggle(t) ==
    /\ t \in Hotkeys
    /\ registered
    /\ pc[t] = "idle"
    /\ ntoggles < MaxToggles
    /\ ntoggles' = ntoggles + 1
    /\ Enter(t)
    /\ UNCHANGED <<auxVars, cfgVars, recording, stop_timer, ntimers, last, capVars, exeVars, mdlVars>>

\* threading.Timer.run: the interval elapsed and cancel() has not been called,
\* so the callback _handle_timeout starts
TimerFire(t) ==
    /\ t \in TimerThreads
    /\ pc[t] = "armed"
    /\ pc' = [pc EXCEPT ![t] = "fired"]
    /\ UNCHANGED <<auxVars, cfgVars, recording, lock, stop_timer, ntoggles, ntimers, last,
                   capVars, exeVars, mdlVars>>

\* _handle_timeout: self.toggle_recording()
HandleTimeout(t) ==
    /\ t \in TimerThreads
    /\ pc[t] = "fired"
    /\ Enter(t)
    /\ UNCHANGED <<auxVars, cfgVars, recording, stop_timer, ntoggles, ntimers, last,
                   capVars, exeVars, mdlVars>>

\* threading.Timer.cancel: sets the finished event; a timer that has not yet
\* fired never runs its callback, any other timer is unaffected
CancelNoEffect(p, t) == p
Cancel(p, t) == IF t # 0 /\ p[t] = "armed" THEN [p EXCEPT ![t] = "cancelled"] ELSE p

\* `if self.config.max_recording_duration > 0:` a timer is created and started
ArmsTimerNever == FALSE
ArmsTimerAlways == TRUE
ArmsTimer == max_recording_duration > 0

\* `except Exception ...: play_error; return`: a start that raised ends here
RaisedIgnored(outcome) == FALSE
Raised(outcome) == outcome # "ok"

\* self._executor.submit(self._transcribe_and_inject, waveform)
SubmitDropped(q, job) == q
SubmitTwice(q, job) == Append(Append(q, job), job)
Submit(q, job) == Append(q, job)

\* the next timer thread threading.Timer(...) creates
NewTimer == NumHotkeys + ntimers + 1

\* _start_recording, then the lock is released.
\* AudioCapture.start returns at once when a stream exists; otherwise it
\* clears the frames, creates the stream and starts it. Creating it may raise
\* (no stream is kept), starting it may raise (the stream is kept).
StartRecording(t) ==
    /\ pc[t] = "start"
    /\ \E outcome \in {"ok", "create_fails", "start_fails"} :
        /\ stream # "none" => outcome = "ok"
        /\ IF stream # "none"
              THEN UNCHANGED capVars
              ELSE /\ frames' = <<>>
                   /\ delivered' = <<>>
                   /\ stream' = CASE outcome = "ok" -> "active"
                                  [] outcome = "start_fails" -> "open"
                                  [] OTHER -> "none"
                   /\ nstreams' = IF outcome = "create_fails" THEN nstreams ELSE nstreams + 1
        /\ IF Raised(outcome)
              THEN /\ last' = [by |-> Caller(t), pre |-> FALSE, op |-> "start_failed",
                                fb |-> <<"error">>, jobs |-> 0]
                   /\ pc' = [pc EXCEPT ![t] = Returned(t)]
                   /\ UNCHANGED <<recording, stop_timer, ntimers>>
              ELSE /\ recording' = TRUE
                   /\ IF ArmsTimer
                         THEN /\ stop_timer' = NewTimer
                              /\ ntimers' = ntimers + 1
                              /\ pc' = [pc EXCEPT ![t] = Returned(t), ![NewTimer] = "armed"]
                         ELSE /\ pc' = [pc EXCEPT ![t] = Returned(t)]
                              /\ UNCHANGED <<stop_timer, ntimers>>
                   /\ last' = [by |-> Caller(t), pre |-> FALSE, op |-> "start",
                                fb |-> <<"start">>, jobs |-> 0]
    /\ lock' = Release(t)
    /\ UNCHANGED <<auxVars, cfgVars, ntoggles, exeVars, mdlVars>>

\* AudioCapture.stop under AudioCapture._lock: the waveform is the
\* concatenation of the buffered frames, and the buffer is cleared
SnapshotKeeps(fr) == [wave |-> fr, rest |-> fr]
Snapshot(fr) == [wave |-> fr, rest |-> <<>>]

\* _stop_recording, then the lock is released.
\* AudioCapture.stop returns an empty array when no stream exists; otherwise
\* it stops and closes the stream and snapshots and clears the frames.
StopRecording(t) ==
    /\ pc[t] = "stop"
    /\ stop_timer' = 0
    /\ IF stream = "none"
          THEN UNCHANGED capVars
          ELSE /\ stream' = "none"
               /\ frames' = Snapshot(frames).rest
               /\ delivered' = <<>>
               /\ UNCHANGED nstreams
    /\ recording' = FALSE
    /\ nsubmitted' = nsubmitted + 1
    /\ queue' = Submit(queue, [id |-> nsubmitted + 1,
                               wave |-> IF stream = "none" THEN <<>>
                                                         ELSE Snapshot(frames).wave])
    /\ pc' = [Cancel(pc, stop_timer) EXCEPT ![t] = Returned(t)]
    /\ last' = [by |-> Caller(t), pre |-> TRUE, op |-> "stop",
                    fb |-> <<"stop">>, jobs |-> Len(queue') - Len(queue)]
    /\ lock' = Release(t)
    /\ UNCHANGED <<auxVars, cfgVars, ntoggles, ntimers, wpc, wjob, wmodel, wtext, results, mdlVars>>

\* AudioCapture.is_active: `return self._stream is not None`
IsActive == stream # "none"

(* ------------------------ AudioCapture callback ----------------------- *)
\* the k-th frame the stream of session s delivers
Frame(s, k) == [s |-> s, k |-> k]

\* _callback: the running stream delivers a frame, which is appended to the
\* buffer under AudioCapture._lock
Callback ==
    /\ stream = "active"
    /\ Len(delivered) < MaxFrames
    /\ frames' = Append(frames, Frame(nstreams, Len(delivered) + 1))
    /\ delivered' = Append(delivered, Frame(nstreams, Len(delivered) + 1))
    /\ UNCHANGED <<auxVars, cfgVars, appVars, stream, nstreams, exeVars, mdlVars>>

(* ------------------- the transcription worker queue -------------------- *)
\* ThreadPoolExecutor: an idle worker thread takes the oldest work item
DequeueNewest(q) == [job |-> q[Len(q)], rest |-> SubSeq(q, 1, Len(q) - 1)]
Dequeue(q) == [job |-> Head(q), rest |-> Tail(q)]

\* the work item's call has returned: its future is resolved
ResolveLost(rs, id) == rs
Resolve(rs, id) == Append(rs, id)

\* _transcribe_and_inject returns: the job has ended, the worker is free
WorkerDone(w) ==
    /\ results' = Resolve(results, wjob[w].id)
    /\ wpc' = [wpc EXCEPT ![w] = "idle"]
    /\ wjob' = [wjob EXCEPT ![w] = NoJob]
    /\ wmodel' = [wmodel EXCEPT ![w] = 0]
    /\ wtext' = [wtext EXCEPT ![w] = <<>>]

\* `if waveform.size == 0: ... return`
NoSamplesIgnored(wave) == FALSE
NoSamples(wave) == Len(wave) = 0

\* `except Exception ...: logger.exception; play_error; return`: where the
\* worker stands once acquire or inference raised
HandlerFallsThrough == "inject"
Handler == "failed"

\* `if not text.strip(): ... return`
BlankNever(text) == FALSE
Blank(text) == Strip(text) = <<>>

\* _transcribe_and_inject starts on a worker thread; a waveform of size 0
\* ends the job at once ("No audio samples captured")
WorkerTake(w) ==
    /\ wpc[w] = "idle"
    /\ queue # <<>>
    /\ queue' = Dequeue(queue).rest
    /\ LET job == Dequeue(queue).job IN
        IF NoSamples(job.wave)
           THEN /\ results' = Resolve(results, job.id)
                /\ UNCHANGED <<wpc, wjob, wmodel, wtext>>
           ELSE /\ UNCHANGED results
                /\ wpc' = [wpc EXCEPT ![w] = "touch"]
                /\ wjob' = [wjob EXCEPT ![w] = job]
                /\ UNCHANGED <<wmodel, wtext>>
    /\ UNCHANGED <<auxVars, cfgVars, appVars, capVars, nsubmitted, mdlVars>>

\* ParakeetManager.transcribe: with self._lock: self._last_access = time.time()
WorkerTouch(w) ==
    /\ wpc[w] = "touch"
    /\ idle' = 0
    /\ wpc' = [wpc EXCEPT ![w] = "ensure"]
    /\ UNCHANGED <<auxVars, cfgVars, appVars, capVars, queue, nsubmitted, wjob, wmodel, wtext,
                   results, model, nloads, mpc>>

\* ParakeetManager.ensure_loaded under the model lock: reload when _model is
\* None (the load may raise, which lands in _transcribe_and_inject's handler),
\* return _model; recognize is then called on the returned instance
LoadedNoReload(m, n) == m
Loaded(m, n) == IF m = 0 THEN n + 1 ELSE m

WorkerEnsure(w) ==
    /\ wpc[w] = "ensure"
    /\ \E loads \in BOOLEAN :
        /\ model # 0 => loads
        /\ IF loads
              THEN /\ model' = Loaded(model, nloads)
                   /\ nloads' = IF model = 0 THEN nloads + 1 ELSE nloads
                   /\ wmodel' = [wmodel EXCEPT ![w] = model']
                   /\ wpc' = [wpc EXCEPT ![w] = "recognize"]
              ELSE /\ wpc' = [wpc EXCEPT ![w] = Handler]
                   /\ UNCHANGED <<model, nloads, wmodel>>
    /\ UNCHANGED <<auxVars, cfgVars, appVars, capVars, queue, nsubmitted, wjob, wtext, results,
                   idle, mpc>>

\* model.recognize returns a text, which transcribe hands back, or raises,
\* which lands in _transcribe_and_inject's handler
WorkerRecognize(w) ==
    /\ wpc[w] = "recognize"
    /\ \E raises \in BOOLEAN :
        IF raises
           THEN /\ wpc' = [wpc EXCEPT ![w] = Handler]
                /\ UNCHANGED wtext
           ELSE \E text \in Transcripts :
                /\ wpc' = [wpc EXCEPT ![w] = "returned"]
                /\ wtext' = [wtext EXCEPT ![w] = text]
    /\ UNCHANGED <<auxVars, cfgVars, appVars, capVars, queue, nsubmitted, wjob, wmodel, results,
                   mdlVars>>

\* the handler: logger.exception, audio_feedback.play_error, return
WorkerFail(w) ==
    /\ wpc[w] = "failed"
    /\ WorkerDone(w)
    /\ UNCHANGED <<auxVars, cfgVars, appVars, capVars, queue, nsubmitted, mdlVars>>

\* after transcribe returned: a text that is blank once stripped ends the job
\* ("Transcription empty; skipping paste"), any other text goes on to inject
WorkerCheck(w) ==
    /\ wpc[w] = "returned"
    /\ IF Blank(wtext[w])
          THEN WorkerDone(w)
          ELSE /\ wpc' = [wpc EXCEPT ![w] = "inject"]
               /\ UNCHANGED <<wjob, wmodel, wtext, results>>
    /\ UNCHANGED <<auxVars, cfgVars, appVars, capVars, queue, nsubmitted, mdlVars>>

\* self.text_injector.inject(text), then the job returns
WorkerInject(w) ==
    /\ wpc[w] = "inject"
    /\ WorkerDone(w)
    /\ UNCHANGED <<auxVars, cfgVars, appVars, capVars, queue, nsubmitted, mdlVars>>

(* ----------------- ParakeetManager: the idle monitor ------------------- *)
\* time.time() - self._last_access > self._timeout
IdleTooLong == idle > timeout

\* _monitor_loop: after the sleep, decide under the lock whether to unload
MonitorCheck ==
    /\ mpc = "sleep"
    /\ mpc' = IF model # 0 /\ EvictionEnabled /\ IdleTooLong THEN "unload" ELSE "sleep"
    /\ UNCHANGED <<auxVars, cfgVars, appVars, capVars, exeVars, model, nloads, idle>>

\* _unload_model: check again under the lock, then drop the instance
MonitorUnload ==
    /\ mpc = "unload"
    /\ model' = IF model # 0 /\ IdleTooLong THEN 0 ELSE model
    /\ mpc' = "sleep"
    /\ UNCHANGED <<auxVars, cfgVars, appVars, capVars, exeVars, nloads, idle>>

\* the clock advances until the idle duration is past the timeout (the code
\* reads the duration only in `> self._timeout`)
Tick ==
    /\ exit_code = 0
    /\ idle <= timeout
    /\ idle' = timeout + 1
    /\ UNCHANGED <<auxVars, cfgVars, appVars, capVars, exeVars, model, nloads, mpc>>

(* --------------------------- specification ----------------------------- *)
Next ==
    \/ \E t \in Hotkeys : HotkeyToggle(t)
    \/ \E t \in TimerThreads : TimerFire(t)
    \/ \E t \in TimerThreads : HandleTimeout(t)
    \/ \E t \in Threads : StartRecording(t)
    \/ \E t \in Threads : StopRecording(t)
    \/ Callback
    \/ \E w \in Workers : WorkerTake(w)
    \/ \E w \in Workers : WorkerTouch(w)
    \/ \E w \in Workers : WorkerEnsure(w)
    \/ \E w \in Workers : WorkerRecognize(w)
    \/ \E w \in Workers : WorkerFail(w)
    \/ \E w \in Workers : WorkerCheck(w)
    \/ \E w \in Workers : WorkerInject(w)
    \/ MonitorCheck
    \/ MonitorUnload
    \/ Tick

Spec == Init /\ [][Next]_vars

\* The threads keep running: a timer whose interval elapsed runs its callback,
\* a thread blocked on the lock gets it once it stays free, a thread inside
\* toggle_recording finishes, and the monitor loop keeps polling. Nothing
\* obliges the user to press the hotkey, the clock to be observed, or a job to
\* be taken.
FairSpec ==
    /\ Init /\ [][Next]_vars
    /\ WF_vars(\E t \in TimerThreads : TimerFire(t))
    /\ WF_vars(\E t \in TimerThreads : HandleTimeout(t))
    /\ WF_vars(\E t \in Threads : StartRecording(t))
    /\ WF_vars(\E t \in Threads : StopRecording(t))
    /\ WF_vars(MonitorCheck)
    /\ WF_vars(MonitorUnload)

\* one step of worker thread w
WorkerStep(w) ==
    \/ WorkerTake(w) \/ WorkerTouch(w) \/ WorkerEnsure(w) \/ WorkerRecognize(w)
    \/ WorkerFail(w) \/ WorkerCheck(w) \/ WorkerInject(w)

\* The executor's worker thread keeps running: it finishes the job it runs and
\* takes the next work item while one is queued.
WorkerFairSpec ==
    /\ Init /\ [][Next]_vars
    /\ \A w \in Workers : WF_vars(WorkerStep(w))

(* ---------------- the recorder alone: toggles and timers ---------------- *)
\* a started application whose max_recording_duration is negative, zero or
\* the default; the idle monitor is disabled
RecorderInit ==
    /\ AppStartWith({-1, 0, 45}) /\ assets = "present" /\ timeout = 0
    /\ ConfigDone
    /\ InjectorIdle
    /\ ManagerIdle
    /\ ClipboardIdle
    /\ CaptureLockIdle

\* the hotkey threads, the timer threads and the capture callback; submitted
\* jobs stay in the executor's queue
RecorderNext ==
    \/ \E t \in Hotkeys : HotkeyToggle(t)
    \/ \E t \in TimerThreads : TimerFire(t)
    \/ \E t \in TimerThreads : HandleTimeout(t)
    \/ \E t \in Threads : StartRecording(t)
    \/ \E t \in Threads : StopRecording(t)
    \/ Callback

RecorderSpec == RecorderInit /\ [][RecorderNext]_vars

(* --------------- a stop whose audio_capture.stop() raises --------------- *)
\* _stop_recording when self._stream.stop() or self._stream.close() raises:
\* the timer was cancelled and _stop_timer cleared (main.py:122-124) before
\* the call; the exception leaves toggle_recording through `with self._lock`,
\* so _recording, the stream and the buffer stay as they were and no job is
\* submitted
StopRecordingFails(t) ==
    /\ pc[t] = "stop"
    /\ stream # "none"
    /\ stop_timer' = 0
    /\ pc' = [Cancel(pc, stop_timer) EXCEPT ![t] = Returned(t)]
    /\ last' = [by |-> Caller(t), pre |-> TRUE, op |-> "stop_failed",
                    fb |-> <<>>, jobs |-> 0]
    /\ lock' = Release(t)
    /\ UNCHANGED <<auxVars, cfgVars, recording, ntoggles, ntimers, capVars, exeVars, mdlVars>>

\* the recorder with a capture device whose stop can fail
CaptureFaultNext ==
    \/ \E t \in Hotkeys : HotkeyToggle(t)
    \/ \E t \in TimerThreads : TimerFire(t)
    \/ \E t \in TimerThreads : HandleTimeout(t)
    \/ \E t \in Threads : StartRecording(t)
    \/ \E t \in Threads : StopRecording(t)
    \/ \E t \in Threads : StopRecordingFails(t)
    \/ Callback

CaptureFaultSpec == RecorderInit /\ [][CaptureFaultNext]_vars

(* --------------------- configuration loading --------------------------- *)
\* the longest max_recording_duration validation accepts, in seconds
MaxRecordingCeiling == 7200

\* str(...).lower() on the paste_mode read from config.json
Lower(mode) ==
    CASE mode = "Ctrl+Shift" -> "ctrl+shift"
      [] mode = "Hack" -> "hack"
      [] OTHER -> mode

\* ChirpConfig.from_dict: the defaults merged with the file's values, the
\* paste mode lower-cased
FromDict(c) == [c EXCEPT !.paste_mode = Lower(c.paste_mode)]

\* ChirpConfig.validate: the field the ValueError names, "none" when the
\* configuration is accepted; threads is tested before paste_mode
Validate(c) ==
    CASE c.threads < 0 -> "threads"
      [] c.clipboard_clear_delay <= 0 -> "clipboard_clear_delay"
      [] c.paste_mode \notin {"ctrl", "ctrl+shift"} -> "paste_mode"
      [] c.model_timeout < 0 -> "model_timeout"
      [] c.max_recording_duration < 0 -> "max_recording_duration"
      [] c.max_recording_duration > MaxRecordingCeiling -> "max_recording_duration"
      [] c.start_sound_path = "absent" -> "start_sound_path"
      [] c.stop_sound_path = "absent" -> "stop_sound_path"
      [] OTHER -> "none"

\* the configurations config.json can hold: each field below its range, at its
\* edge and inside it; a sound path is unset, names a file, or names none
Configs ==
    [threads : {-1, 0, 1},
     clipboard_clear_delay : {-1, 0, 1},
     paste_mode : {"ctrl", "ctrl+shift", "Ctrl+Shift", "Hack"},
     model_timeout : {-1, 0, 300},
     max_recording_duration : {-1, 0, 45, MaxRecordingCeiling, MaxRecordingCeiling + 1},
     start_sound_path : {"none", "present", "absent"},
     stop_sound_path : {"none", "present", "absent"}]

\* ChirpApp.__init__ calls config_manager.load() before it builds anything; an
\* exception raised there leaves the constructor
ComponentsRegardless == load_result # "pending"
ComponentsAfterLoad == load_result = "accepted"

\* ConfigManager.load: read config.json, from_dict, validate
ConfigLoad ==
    /\ load_result = "pending"
    /\ conf' = FromDict(conf)
    /\ load_error' = Validate(conf')
    /\ load_result' = IF load_error' = "none" THEN "accepted" ELSE "rejected"
    /\ UNCHANGED <<built, injVars, mgrVars, clipVars, lockVars, cfgVars, appVars, capVars, exeVars, mdlVars>>

\* ChirpApp.__init__ after load(): the keyboard manager, the capture, the
\* feedback, the model manager (which loads the engine), the injector and the
\* executor are built from the configuration, and run() registers the hotkey
BuildComponents ==
    /\ ComponentsAfterLoad
    /\ ~built
    /\ built' = TRUE
    /\ max_recording_duration' = conf.max_recording_duration
    /\ timeout' = conf.model_timeout
    /\ model' = 1
    /\ nloads' = 1
    /\ registered' = TRUE
    /\ mpc' = IF EvictionEnabled' THEN "sleep" ELSE "off"
    /\ UNCHANGED <<conf, load_result, load_error, injVars, mgrVars, clipVars, lockVars, assets, exit_code, appVars,
                   capVars, exeVars, idle>>

\* before ChirpApp.__init__ has read config.json: nothing is built, no engine
\* is loaded, no hotkey is registered
ConfigInit ==
    /\ conf \in Configs
    /\ load_result = "pending"
    /\ load_error = "none"
    /\ built = FALSE
    /\ InjectorIdle
    /\ ManagerIdle
    /\ ClipboardIdle
    /\ CaptureLockIdle
    /\ max_recording_duration = 0
    /\ timeout = 0
    /\ assets = "present"
    /\ exit_code = 0
    /\ registered = FALSE
    /\ recording = FALSE
    /\ lock = 0
    /\ stop_timer = 0
    /\ pc = [t \in Threads |-> IF t \in Hotkeys THEN "idle" ELSE "unused"]
    /\ ntoggles = 0
    /\ ntimers = 0
    /\ last = [by |-> "none", pre |-> FALSE, op |-> "none", fb |-> <<>>, jobs |-> 0]
    /\ stream = "none"
    /\ frames = <<>>
    /\ delivered = <<>>
    /\ nstreams = 0
    /\ queue = <<>>
    /\ nsubmitted = 0
    /\ wpc = [w \in Workers |-> "idle"]
    /\ wjob = [w \in Workers |-> NoJob]
    /\ wmodel = [w \in Workers |-> 0]
    /\ wtext = [w \in Workers |-> <<>>]
    /\ results = <<>>
    /\ model = 0
    /\ nloads = 0
    /\ idle = 0
    /\ mpc = "off"

ConfigNext == ConfigLoad \/ BuildComponents

ConfigSpec == ConfigInit /\ [][ConfigNext]_vars

(* ------------- a job after transcribe returned; TextInjector ----------- *)
\* a record handed to the logger: its level, its message, and what of the
\* job the message is formatted with ("nothing", "length", "text", "exception")
Record(level, msg, shows, value) ==
    [level |-> level, msg |-> msg, shows |-> shows, value |-> value]

\* the levels a logger set to the default level INFO lets through
Visible == {"INFO", "WARNING", "ERROR", "CRITICAL"}

\* sys.platform.startswith("win")
OnWindows == platform = "win32"

\* `combo = "ctrl+v" if self._paste_mode == "ctrl" else "ctrl+shift+v"`
PasteComboCtrl(mode) == "ctrl+v"
PasteCombo(mode) == IF mode = "ctrl" THEN "ctrl+v" ELSE "ctrl+shift+v"

\* a call on the keyboard manager: write(text) or send(combo)
KeyCall(op, txt, combo) == [op |-> op, text |-> txt, combo |-> combo]

\* _transcribe_and_inject after transcribe returned: the DEBUG record with the
\* duration and the length, then either the INFO record of an empty
\* transcription and the return, or the INFO record with the text and inject
JobCheck ==
    /\ jpc = "returned"
    /\ log' = log
              \o <<Record("DEBUG", "Transcription finished in %.2fs (chars=%s)", "length", <<>>)>>
              \o <<IF Blank(jtext)
                      THEN Record("INFO", "Transcription empty; skipping paste", "nothing", <<>>)
                      ELSE Record("INFO", "Transcription: %s", "text", jtext)>>
    /\ jpc' = IF Blank(jtext) THEN "done" ELSE "inject"
    /\ UNCHANGED <<platform, paste_mode, clipboard_behavior, style, jtext, copies, keys,
                   clear_timer, loadVars, mgrVars, clipVars, lockVars, cfgVars, appVars, capVars, exeVars, mdlVars>>

\* inject on Windows: self._keyboard.write(processed); an exception is logged
InjectType ==
    /\ jpc = "inject"
    /\ OnWindows
    /\ keys' = Append(keys, KeyCall("write", Process(style, jtext), ""))
    /\ \E raises \in BOOLEAN :
        log' = IF raises
                  THEN Append(log, Record("ERROR", "Text injection failed: %s", "exception", <<>>))
                  ELSE log
    /\ jpc' = "done"
    /\ UNCHANGED <<platform, paste_mode, clipboard_behavior, style, jtext, copies,
                   clear_timer, loadVars, mgrVars, clipVars, lockVars, cfgVars, appVars, capVars, exeVars, mdlVars>>

\* inject elsewhere, first half: pyperclip.copy(processed); a
\* PyperclipException is logged and ends the call
InjectCopy ==
    /\ jpc = "inject"
    /\ ~OnWindows
    /\ \E raises \in BOOLEAN :
        IF raises
           THEN /\ log' = Append(log, Record("ERROR", "Clipboard copy failed: %s", "exception", <<>>))
                /\ jpc' = "done"
                /\ UNCHANGED copies
           ELSE /\ copies' = Append(copies, Process(style, jtext))
                /\ jpc' = "paste"
                /\ UNCHANGED log
    /\ UNCHANGED <<platform, paste_mode, clipboard_behavior, style, jtext, keys,
                   clear_timer, loadVars, mgrVars, clipVars, lockVars, cfgVars, appVars, capVars, exeVars, mdlVars>>

\* inject elsewhere, second half: self._keyboard.send(combo), an exception is
\* logged; then _schedule_clipboard_clear when clipboard_behavior is set
InjectPaste ==
    /\ jpc = "paste"
    /\ keys' = Append(keys, KeyCall("send", <<>>, PasteCombo(paste_mode)))
    /\ \E raises \in BOOLEAN :
        log' = IF raises
                  THEN Append(log, Record("ERROR", "Paste injection failed: %s", "exception", <<>>))
                  ELSE log
    /\ clear_timer' = IF clipboard_behavior THEN "armed" ELSE clear_timer
    /\ jpc' = "done"
    /\ UNCHANGED <<platform, paste_mode, clipboard_behavior, style, jtext, copies,
                   loadVars, mgrVars, clipVars, lockVars, cfgVars, appVars, capVars, exeVars, mdlVars>>

\* the clipboard-clear timer fires: pyperclip.copy(""), a PyperclipException
\* is swallowed
ClearFire ==
    /\ clear_timer = "armed"
    /\ clear_timer' = "fired"
    /\ \E raises \in BOOLEAN : copies' = IF raises THEN copies ELSE Append(copies, <<>>)
    /\ UNCHANGED <<platform, paste_mode, clipboard_behavior, style, jtext, jpc, log, keys,
                   loadVars, mgrVars, clipVars, lockVars, cfgVars, appVars, capVars, exeVars, mdlVars>>

\* transcribe has just returned a text to the worker
JobInit ==
    /\ platform \in {"win32", "linux"}
    /\ paste_mode \in {"ctrl", "ctrl+shift"}
    /\ clipboard_behavior \in BOOLEAN
    /\ style \in {"none", "uppercase"}
    /\ jtext \in Texts
    /\ jpc = "returned"
    /\ log = <<>>
    /\ copies = <<>>
    /\ keys = <<>>
    /\ clear_timer = "none"
    /\ ConfigDone
    /\ ManagerIdle
    /\ ClipboardIdle
    /\ CaptureLockIdle
    /\ AppStart /\ max_recording_duration = 0 /\ timeout = 0 /\ assets = "present"

JobNext == JobCheck \/ InjectType \/ InjectCopy \/ InjectPaste \/ ClearFire

JobSpec == JobInit /\ [][JobNext]_vars

(* ------- ParakeetManager under concurrent callers: ParakeetManager._lock ------- *)
\* the threads that call ParakeetManager.transcribe
Callers == {"c1", "c2"}

\* `with self._lock:` blocks until no thread holds ParakeetManager._lock
ModelLockFreeIgnored == TRUE
ModelLockFree == mlock = "free"

\* _unload_model's test under the lock: an instance is held and the idle
\* duration is past the timeout at that instant
StillIdleAssumed == TRUE
StillIdle == model # 0 /\ IdleTooLong

\* _load_model: onnx_asr.load_model returns an instance when it finds the
\* model files and raises otherwise (ModelNotPreparedError)
LoadSucceedsNever == FALSE
LoadSucceeds == assets = "present"

\* the variables no step of the manager changes
mgrFrame == <<max_recording_duration, timeout, exit_code, registered, appVars, capVars,
              exeVars, loadVars, injVars, clipVars, lockVars>>

\* a worker calls self.parakeet.transcribe(waveform, ...) for a job with samples
TranscribeCall(c) ==
    /\ cpc[c] = "idle"
    /\ ncalls < MaxCalls
    /\ ncalls' = ncalls + 1
    /\ cpc' = [cpc EXCEPT ![c] = "touch"]
    /\ UNCHANGED <<mgrFrame, assets, mdlVars, mlock, cmodel, cout>>

\* transcribe: `with self._lock:` is entered
TouchLock(c) ==
    /\ cpc[c] = "touch"
    /\ ModelLockFree
    /\ mlock' = c
    /\ cpc' = [cpc EXCEPT ![c] = "touching"]
    /\ UNCHANGED <<mgrFrame, assets, mdlVars, cmodel, cout, ncalls>>

\* transcribe: self._last_access = time.time(), and the lock is released
TouchWrite(c) ==
    /\ cpc[c] = "touching"
    /\ idle' = 0
    /\ mlock' = "free"
    /\ cpc' = [cpc EXCEPT ![c] = "ensure"]
    /\ UNCHANGED <<mgrFrame, assets, model, nloads, mpc, cmodel, cout, ncalls>>

\* ensure_loaded: `with self._lock:` is entered
EnsureLock(c) ==
    /\ cpc[c] = "ensure"
    /\ ModelLockFree
    /\ mlock' = c
    /\ cpc' = [cpc EXCEPT ![c] = "in_ensure"]
    /\ UNCHANGED <<mgrFrame, assets, mdlVars, cmodel, cout, ncalls>>

\* ensure_loaded: `if self._model is None:` goes on to load ("Reloading
\* Parakeet model..."); otherwise `return self._model` releases the lock
EnsureTest(c) ==
    /\ cpc[c] = "in_ensure"
    /\ IF model = 0
          THEN /\ cpc' = [cpc EXCEPT ![c] = "loading"]
               /\ UNCHANGED <<mlock, cmodel>>
          ELSE /\ cmodel' = [cmodel EXCEPT ![c] = model]
               /\ mlock' = "free"
               /\ cpc' = [cpc EXCEPT ![c] = "recognize"]
    /\ UNCHANGED <<mgrFrame, assets, mdlVars, cout, ncalls>>

\* ensure_loaded: self._model = self._load_model(); return self._model. A load
\* that raises leaves _model None, releases the lock and leaves transcribe.
LoadModel(c) ==
    /\ cpc[c] = "loading"
    /\ IF LoadSucceeds
          THEN /\ model' = Loaded(model, nloads)
               /\ nloads' = nloads + 1
               /\ cmodel' = [cmodel EXCEPT ![c] = model']
               /\ cpc' = [cpc EXCEPT ![c] = "recognize"]
          ELSE /\ cpc' = [cpc EXCEPT ![c] = Handler]
               /\ UNCHANGED <<model, nloads, cmodel>>
    /\ mlock' = "free"
    /\ UNCHANGED <<mgrFrame, assets, idle, mpc, cout, ncalls>>

\* transcribe: model.recognize(...) on the local `model` returns the text,
\* which transcribe returns, or raises
Recognize(c) ==
    /\ cpc[c] = "recognize"
    /\ \E raises \in BOOLEAN :
        cpc' = [cpc EXCEPT ![c] = IF raises THEN Handler ELSE "returned"]
    /\ UNCHANGED <<mgrFrame, assets, mdlVars, mlock, cmodel, cout, ncalls>>

\* _transcribe_and_inject after the call: the handler (logger.exception,
\* play_error, return) when it raised, the text otherwise
JobEnd(c) ==
    /\ cpc[c] \in {"failed", "returned"}
    /\ cout' = [cout EXCEPT ![c] = CASE cpc[c] = "returned" -> "text"
                                     [] cmodel[c] = 0 -> "load_error"
                                     [] OTHER -> "inference_error"]
    /\ cpc' = [cpc EXCEPT ![c] = "idle"]
    /\ cmodel' = [cmodel EXCEPT ![c] = 0]
    /\ UNCHANGED <<mgrFrame, assets, mdlVars, mlock, ncalls>>

\* _monitor_loop after time.sleep(5): `with self._lock:` is entered
MonitorLock ==
    /\ mpc = "sleep"
    /\ ModelLockFree
    /\ mlock' = "monitor"
    /\ mpc' = "checking"
    /\ UNCHANGED <<mgrFrame, assets, model, nloads, idle, cpc, cmodel, cout, ncalls>>

\* _monitor_loop: should_unload is computed and the lock is released
MonitorDecide ==
    /\ mpc = "checking"
    /\ mpc' = IF model # 0 /\ EvictionEnabled /\ IdleTooLong THEN "unload" ELSE "sleep"
    /\ mlock' = "free"
    /\ UNCHANGED <<mgrFrame, assets, model, nloads, idle, cpc, cmodel, cout, ncalls>>

\* _unload_model: `with self._lock:` is entered
UnloadLock ==
    /\ mpc = "unload"
    /\ ModelLockFree
    /\ mlock' = "monitor"
    /\ mpc' = "unloading"
    /\ UNCHANGED <<mgrFrame, assets, model, nloads, idle, cpc, cmodel, cout, ncalls>>

\* _unload_model: the test is made again under the lock, the instance is
\* dropped when it passes, and the lock is released
UnloadModel ==
    /\ mpc = "unloading"
    /\ model' = IF StillIdle THEN 0 ELSE model
    /\ mlock' = "free"
    /\ mpc' = "sleep"
    /\ UNCHANGED <<mgrFrame, assets, nloads, idle, cpc, cmodel, cout, ncalls>>

\* the model files are removed from, or put back into, the model directory
AssetsChange ==
    /\ assets' = IF assets = "present" THEN "missing" ELSE "present"
    /\ UNCHANGED <<mgrFrame, mdlVars, mgrVars>>

\* a running application with a positive idle timeout, before the first job
ManagerInit ==
    /\ AppStart /\ assets = "present" /\ timeout = MaxTimeout /\ max_recording_duration = 0
    /\ ConfigDone
    /\ InjectorIdle
    /\ ManagerIdle
    /\ ClipboardIdle
    /\ CaptureLockIdle

ManagerNext ==
    \/ \E c \in Callers : TranscribeCall(c)
    \/ \E c \in Callers : TouchLock(c)
    \/ \E c \in Callers : TouchWrite(c)
    \/ \E c \in Callers : EnsureLock(c)
    \/ \E c \in Callers : EnsureTest(c)
    \/ \E c \in Callers : LoadModel(c)
    \/ \E c \in Callers : Recognize(c)
    \/ \E c \in Callers : JobEnd(c)
    \/ MonitorLock
    \/ MonitorDecide
    \/ UnloadLock
    \/ UnloadModel
    \/ AssetsChange
    \/ Tick

ManagerSpec == ManagerInit /\ [][ManagerNext]_vars

\* the variables no step of an inject call changes
clipFrame == <<cfgVars, appVars, capVars, exeVars, mdlVars, loadVars, injVars, mgrVars,
               lockVars>>

(* ------- successive injections and the shared clipboard (not Windows) ------- *)
\* what the clipboard holds: what the user had there, the processed text of
\* the k-th inject call, or the empty string
Content(kind, k) == [kind |-> kind, job |-> k]
EmptyContent == Content("empty", 0)
TextOf(k) == Content("text", k)

Injections == 1..MaxInjections

\* _clear writes the empty string: pyperclip.copy("")
Cleared(c) == EmptyContent

\* the worker calls inject for the next job: pyperclip.copy(processed); a
\* PyperclipException is logged and ends the call
CopyText ==
    /\ ipc = "idle"
    /\ ~OnWindows
    /\ ninj < MaxInjections
    /\ ninj' = ninj + 1
    /\ \E raises \in BOOLEAN :
        IF raises
           THEN UNCHANGED <<clip, ipc>>
           ELSE /\ clip' = TextOf(ninj + 1)
                /\ ipc' = "copied"
    /\ UNCHANGED <<ctimers, pastes, clipFrame>>

\* time.sleep(0.12), then self._keyboard.send(combo): the focused application
\* pastes what the clipboard holds at that moment, unless send raises; then
\* _schedule_clipboard_clear starts a timer of its own for this call
SendPaste ==
    /\ ipc = "copied"
    /\ \E raises \in BOOLEAN :
        pastes' = IF raises THEN pastes ELSE Append(pastes, [job |-> ninj, content |-> clip])
    /\ ctimers' = IF clipboard_behavior THEN [ctimers EXCEPT ![ninj] = "armed"] ELSE ctimers
    /\ ipc' = "idle"
    /\ UNCHANGED <<clip, ninj, clipFrame>>

\* the timer of the k-th call fires: _clear, a PyperclipException is swallowed
ClearClipboard(k) ==
    /\ ctimers[k] = "armed"
    /\ ctimers' = [ctimers EXCEPT ![k] = "fired"]
    /\ \E raises \in BOOLEAN : clip' = IF raises THEN clip ELSE Cleared(clip)
    /\ UNCHANGED <<ninj, ipc, pastes, clipFrame>>

\* a running application on a platform other than Windows, before the first
\* injection
ClipboardInit ==
    /\ AppStart /\ assets = "present" /\ timeout = 0 /\ max_recording_duration = 0
    /\ ConfigDone
    /\ ManagerIdle
    /\ ClipboardIdle
    /\ CaptureLockIdle
    /\ platform = "linux"
    /\ paste_mode \in {"ctrl", "ctrl+shift"}
    /\ clipboard_behavior \in BOOLEAN
    /\ style = "none"
    /\ jtext = <<>>
    /\ jpc = "idle"
    /\ log = <<>>
    /\ copies = <<>>
    /\ keys = <<>>
    /\ clear_timer = "none"

ClipboardNext ==
    \/ CopyText
    \/ SendPaste
    \/ \E k \in Injections : ClearClipboard(k)

ClipboardSpec == ClipboardInit /\ [][ClipboardNext]_vars

(* ---- the three locks together: ChirpApp._lock, AudioCapture._lock, ---- *)
(* ---- ParakeetManager._lock                                          ---- *)
\* `with self._lock:` in AudioCapture blocks until no thread holds the lock
CaptureLockFree == alock = "free"

\* the end of a `with self._lock:` block in AudioCapture: holder h releases
CaptureReleaseSkipped(h) == h
CaptureRelease(h) == "free"

\* the hotkey hook calls toggle_recording: the thread reaches `with self._lock:`
ToggleCall(t) ==
    /\ t \in Hotkeys
    /\ registered
    /\ pc[t] = "idle"
    /\ ntoggles < MaxToggles
    /\ ntoggles' = ntoggles + 1
    /\ pc' = [pc EXCEPT ![t] = "waiting"]
    /\ UNCHANGED <<auxVars, cfgVars, recording, lock, stop_timer, ntimers, last, capVars,
                   exeVars, mdlVars>>

\* the waiting hotkey thread gets ChirpApp._lock and reads _recording
ToggleEnter(t) ==
    /\ t \in Hotkeys
    /\ pc[t] = "waiting"
    /\ Enter(t)
    /\ UNCHANGED <<auxVars, cfgVars, recording, stop_timer, ntoggles, ntimers, last,
                   capVars, exeVars, mdlVars>>

\* _stop_recording up to `with self._lock:` in AudioCapture.stop: the timer is
\* cancelled, the stream is stopped and closed and _stream set to None. A stop
\* always finds a stream: _recording is set only after start returned. A callback that is running at that
\* moment still holds or takes the capture lock.
StopBegin(t) ==
    /\ pc[t] = "stop"
    /\ stream # "none"
    /\ stop_timer' = 0
    /\ stream' = "none"
    /\ pc' = [Cancel(pc, stop_timer) EXCEPT ![t] = "stopped"]
    /\ UNCHANGED <<loadVars, injVars, mgrVars, clipVars, lockVars, cfgVars, recording, lock,
                   ntoggles, ntimers, last, frames, delivered, nstreams, exeVars, mdlVars>>

\* AudioCapture.stop: `with self._lock:` is entered
StopAcquire(t) ==
    /\ pc[t] = "stopped"
    /\ CaptureLockFree
    /\ alock' = "toggle"
    /\ pc' = [pc EXCEPT ![t] = "snapshot"]
    /\ UNCHANGED <<loadVars, injVars, mgrVars, clipVars, cbpc, cfgVars, recording, lock,
                   stop_timer, ntoggles, ntimers, last, capVars, exeVars, mdlVars>>

\* AudioCapture.stop concatenates and clears the frames and releases the
\* capture lock; _stop_recording sets _recording = False, plays the stop sound
\* and submits the job; toggle_recording releases ChirpApp._lock
StopFinish(t) ==
    /\ pc[t] = "snapshot"
    /\ frames' = Snapshot(frames).rest
    /\ delivered' = <<>>
    /\ alock' = CaptureRelease("toggle")
    /\ recording' = FALSE
    /\ nsubmitted' = nsubmitted + 1
    /\ queue' = Submit(queue, [id |-> nsubmitted + 1, wave |-> Snapshot(frames).wave])
    /\ pc' = [pc EXCEPT ![t] = Returned(t)]
    /\ last' = [by |-> Caller(t), pre |-> TRUE, op |-> "stop",
                    fb |-> <<"stop">>, jobs |-> Len(queue') - Len(queue)]
    /\ lock' = Release(t)
    /\ UNCHANGED <<loadVars, injVars, mgrVars, clipVars, cbpc, cfgVars, stop_timer, ntoggles,
                   ntimers, stream, nstreams, wpc, wjob, wmodel, wtext, results, mdlVars>>

\* _callback: the running stream delivers a frame and `with self._lock:` is
\* entered
CallbackLock ==
    /\ stream = "active"
    /\ Len(delivered) < MaxFrames
    /\ cbpc = "idle"
    /\ CaptureLockFree
    /\ alock' = "callback"
    /\ cbpc' = "append"
    /\ UNCHANGED <<loadVars, injVars, mgrVars, clipVars, cfgVars, appVars, capVars, exeVars,
                   mdlVars>>

\* _callback: self._frames.append(indata.copy()), and the lock is released
CallbackAppend ==
    /\ cbpc = "append"
    /\ frames' = Append(frames, Frame(nstreams, Len(delivered) + 1))
    /\ delivered' = Append(delivered, Frame(nstreams, Len(delivered) + 1))
    /\ alock' = CaptureRelease("callback")
    /\ cbpc' = "idle"
    /\ UNCHANGED <<loadVars, injVars, mgrVars, clipVars, cfgVars, appVars, stream, nstreams,
                   exeVars, mdlVars>>

\* the executor's only worker thread (max_workers = 1) as a caller of the manager
TheWorker == "c1"

\* the worker starts a job with samples: self.parakeet.transcribe(waveform, ...)
WorkerCall(c) ==
    /\ ncalls < MaxJobs
    /\ TranscribeCall(c)

\* a running application with the default max_recording_duration and a
\* positive idle timeout, before the first toggle and the first job
LockInit ==
    /\ AppStartWith({45}) /\ assets = "present" /\ timeout = MaxTimeout
    /\ ConfigDone
    /\ InjectorIdle
    /\ ManagerIdle
    /\ ClipboardIdle
    /\ CaptureLockIdle

\* the hotkey and timer threads, the capture callback, the worker's calls into
\* the manager (the executor has one worker thread) and the monitor thread
LockNext ==
    \/ \E t \in Hotkeys : ToggleCall(t)
    \/ \E t \in Hotkeys : ToggleEnter(t)
    \/ \E t \in TimerThreads : TimerFire(t)
    \/ \E t \in TimerThreads : HandleTimeout(t)
    \/ \E t \in Threads : StartRecording(t)
    \/ \E t \in Threads : StopBegin(t)
    \/ \E t \in Threads : StopAcquire(t)
    \/ \E t \in Threads : StopFinish(t)
    \/ CallbackLock
    \/ CallbackAppend
    \/ \E c \in {TheWorker} : WorkerCall(c)
    \/ \E c \in {TheWorker} : TouchLock(c)
    \/ \E c \in {TheWorker} : TouchWrite(c)
    \/ \E c \in {TheWorker} : EnsureLock(c)
    \/ \E c \in {TheWorker} : EnsureTest(c)
    \/ \E c \in {TheWorker} : LoadModel(c)
    \/ \E c \in {TheWorker} : Recognize(c)
    \/ \E c \in {TheWorker} : JobEnd(c)
    \/ MonitorLock
    \/ MonitorDecide
    \/ UnloadLock
    \/ UnloadModel
    \/ Tick

LockSpec == LockInit /\ [][LockNext]_vars

\* The hotkey and timer threads and the stream's callback thread keep running
\* and the capture and feedback collaborators return: a thread blocked on a
\* lock gets it once it stays free, and a thread inside toggle_recording or
\* inside the callback goes on. Nothing is assumed about the worker or the
\* monitor thread.
LockFairSpec ==
    /\ LockInit /\ [][LockNext]_vars
    /\ WF_vars(\E t \in Hotkeys : ToggleEnter(t))
    /\ WF_vars(\E t \in TimerThreads : HandleTimeout(t))
    /\ WF_vars(\E t \in Threads : StartRecording(t))
    /\ WF_vars(\E t \in Threads : StopBegin(t))
    /\ WF_vars(\E t \in Threads : StopAcquire(t))
    /\ WF_vars(\E t \in Threads : StopFinish(t))
    /\ WF_vars(CallbackAppend)

(* ------------------------------ properties ----------------------------- *)
\* thread t is inside toggle_recording's `with self._lock:` block
InToggle(t) == pc[t] \in {"start", "stop"}
\* this step ends thread t's toggle_recording call
ToggleReturns(t) == InToggle(t) /\ pc'[t] = Returned(t)
\* this step ends a _start_recording whose AudioCapture.start raised
StartFails(t) == pc[t] = "start" /\ pc'[t] = Returned(t) /\ stream = "none" /\ stream' # "active"
\* this step ends a _stop_recording
StopReturns(t) == pc[t] = "stop" /\ pc'[t] = Returned(t)
\* how often a completed call played a sound
Played(call, sound) == Cardinality({i \in DOMAIN call.fb : call.fb[i] = sound})

\* what two consecutive calls, `last` and the one this step ends, did together
TwoCallEffects ==
    /\ Played(last, "start") + Played(last', "start") = 1
    /\ Played(last, "stop") + Played(last', "stop") = 1
    /\ last.jobs + last'.jobs = 1
    /\ recording' = FALSE

C2_Serialized ==
    /\ [](/\ Cardinality({t \in Threads : InToggle(t)}) <= 1
          /\ \A t \in Threads : InToggle(t) => lock = t
          /\ lock # 0 => InToggle(lock)
          /\ \A t \in Threads : pc[t] = "start" => ~recording
          /\ \A t \in Threads : pc[t] = "stop" => recording)
    /\ [][recording' # recording => lock # 0 /\ ToggleReturns(lock)]_vars

\* a timer callback and the second hotkey thread are blocked on the lock while
\* a hotkey thread runs the stop transition
C2_Witness ==
    \E t \in Hotkeys, k \in TimerThreads :
        pc[t] = "stop" /\ lock = t /\ pc[k] = "fired" /\ ntoggles < MaxToggles

\* C3: a toggle from Idle whose capture start fails leaves the state Idle,
\* plays the error sound and no other, arms no timer and submits no job; the
\* next toggle_recording call takes the start branch again.
C3_StartFailure ==
    /\ [][\A t \in Threads : StartFails(t) =>
            /\ ~recording /\ ~recording'
            /\ last'.fb = <<"error">>
            /\ stop_timer' = stop_timer /\ ntimers' = ntimers
            /\ \A k \in TimerThreads \ {t} : pc'[k] = pc[k]
            /\ queue' = queue /\ nsubmitted' = nsubmitted]_vars
    /\ [][\A t \in Threads :
            (last.op = "start_failed" /\ ~InToggle(t) /\ pc'[t] \in {"start", "stop"})
                => pc'[t] = "start"]_vars

\* after a failed start, the next call is inside the start branch
C3_Witness ==
    /\ last.op = "start_failed" /\ ~recording
    /\ \E t \in Threads : pc[t] = "start"

\* what every stop transition does, whoever calls it: the timer is cleared
\* and cancelled, the capture is stopped and its frames are taken, the state
\* becomes Idle, the stop sound is played and one job with the frames is queued
StopEffects ==
    /\ recording /\ ~recording'
    /\ stop_timer' = 0
    /\ (stop_timer # 0 /\ pc[stop_timer] = "armed") => pc'[stop_timer] = "cancelled"
    /\ stream' = "none" /\ frames' = <<>>
    /\ nsubmitted' = nsubmitted + 1
    /\ queue' = Append(queue, [id |-> nsubmitted', wave |-> frames])
    /\ last'.fb = <<"stop">> /\ last'.jobs = 1

C5_TimerOnlyStops ==
    /\ \A t \in TimerThreads : pc[t] # "start"
    /\ last.by = "timer" => last.op = "stop"

\* the steps a timer thread can take
TimerMoves(t) ==
    \/ pc'[t] = pc[t]
    \/ pc[t] = "unused" /\ pc'[t] = "armed"
    \/ pc[t] = "armed" /\ pc'[t] \in {"fired", "cancelled"}
    \/ pc[t] = "fired" /\ pc'[t] \in {"start", "stop"}
    \/ pc[t] \in {"start", "stop"} /\ pc'[t] = "done"

\* C6: a successful start with a positive duration arms a fresh timer; a stop
\* clears _stop_timer and cancels the armed timer, leaving a timer that has
\* already fired as it is; a cancelled timer never runs its callback, and a
\* timer runs its callback at most once; a timer is armed only during its
\* own recording session.
C6_TimerLifecycle ==
    /\ [](\A t \in TimerThreads : pc[t] = "armed" => stop_timer = t /\ recording)
    /\ [][\A t \in TimerThreads : TimerMoves(t)]_vars
    /\ [][\A t \in Threads :
            (pc[t] = "start" /\ pc'[t] = Returned(t) /\ recording'
             /\ max_recording_duration > 0)
            => /\ stop_timer' \in TimerThreads
               /\ pc[stop_timer'] = "unused" /\ pc'[stop_timer'] = "armed"]_vars
    /\ [][\A t \in Threads : StopReturns(t) =>
            /\ stop_timer' = 0
            /\ \A k \in TimerThreads \ {t} :
                 pc'[k] = IF pc[k] = "armed" THEN "cancelled" ELSE pc[k]]_vars

\* a manual stop has just cancelled a timer that had already fired: its
\* callback is still about to run
C6_Witness ==
    /\ last.op = "stop" /\ last.by = "hotkey" /\ stop_timer = 0 /\ lock = 0
    /\ \E k \in TimerThreads : pc[k] = "fired"

\* C7: jobs end in the order they were submitted, a job is started only when
\* every job submitted before it has ended, and the queue holds the waiting
\* jobs in the order the recordings were stopped.
C7_Fifo ==
    /\ \A i \in DOMAIN results : results[i] = i
    /\ \A w \in Workers : wpc[w] # "idle" => wjob[w].id = Len(results) + 1
    /\ \A i \in DOMAIN queue : queue[i].id = nsubmitted - Len(queue) + i

\* the second job's inference runs after the first job has ended
C7_Witness ==
    \E w \in Workers : wpc[w] = "recognize" /\ wjob[w].id = 2 /\ results = <<1>>

\* C8: at most one job is in flight, so at most one recognize call runs, and
\* a job leaves the queue only when no job is running.
C8_OneInFlight ==
    /\ [](Cardinality({w \in Workers : wpc[w] # "idle"}) <= 1)
    /\ [][Len(queue') < Len(queue) => \A w \in Workers : wpc[w] = "idle"]_vars

\* a job waits in the queue while another job's inference runs
C8_Witness ==
    \E w \in Workers : wpc[w] = "recognize" /\ Len(queue) >= 1

\* C9 as stated: while a job's inference runs, the handle holds an instance.
C9_LoadedDuringInference ==
    \A w \in Workers : wpc[w] = "recognize" => model # 0

\* C10: with a positive timeout a loaded handle that stays idle longer than
\* the timeout is unloaded by the monitor; the handle only changes from an
\* instance to none (by the monitor, when idle too long) and from none to a
\* fresh instance (by a reload); inference runs on an instance that was
\* loaded, never on none.
C10_EvictReload ==
    /\ [](\A w \in Workers : wpc[w] = "recognize" => wmodel[w] \in 1..nloads)
    /\ [](model \in {0, nloads})
    /\ [][model' # model =>
            \/ model = 0 /\ model' = nloads + 1 /\ nloads' = nloads + 1
            \/ model' = 0 /\ mpc = "unload" /\ timeout > 0 /\ idle > timeout]_vars
    /\ (timeout > 0 /\ model # 0 /\ idle > timeout) ~> (model = 0 \/ idle = 0)

\* instance 1 was unloaded and inference runs on the reloaded instance 2
C10_Witness ==
    \E w \in Workers : wpc[w] = "recognize" /\ wmodel[w] = 2 /\ model = 2 /\ nloads = 2

\* C11: with an idle threshold of 0 or less the engine loaded by a successful
\* construction is never unloaded: the handle keeps that first instance and no
\* reload ever happens, however long the idle time.
C11_NeverUnloaded ==
    (timeout <= 0 /\ exit_code = 0) => (model = 1 /\ nloads = 1)

\* threshold 0: the idle time is past the threshold, a job has ended and the
\* next one runs its inference on the instance the constructor loaded
C11_Witness ==
    /\ timeout = 0 /\ IdleTooLong /\ Len(results) >= 1
    /\ \E w \in Workers : wpc[w] = "recognize" /\ wmodel[w] = 1

\* C12: a job whose waveform is empty is resolved as a skip. The step that
\* takes it from the queue ends it: the worker stays free, the access
\* timestamp, the handle and the load count are untouched (no acquisition, no
\* inference); and a worker that is past the size test, in particular one
\* that acquires, infers or injects, never runs an empty waveform.
C12_EmptySkipped ==
    /\ [](\A w \in Workers : wpc[w] # "idle" => Len(wjob[w].wave) > 0)
    /\ [][(Len(queue') < Len(queue) /\ Len(Head(queue).wave) = 0) =>
            /\ results' = Append(results, Head(queue).id)
            /\ wpc' = wpc /\ wtext' = wtext /\ wmodel' = wmodel
            /\ mdlVars' = mdlVars]_vars

\* an earlier job has ended, the worker is free and the oldest queued job has
\* an empty waveform (a session in which the callback delivered no frame)
C12_Witness ==
    /\ results = <<1>>
    /\ queue # <<>> /\ Len(Head(queue).wave) = 0 /\ Head(queue).id = 2
    /\ \A w \in Workers : wpc[w] = "idle"

\* C13: an error raised by acquire (ensure_loaded) or by inference is
\* confined to its job. The raising step lands in the job's handler and
\* changes neither the recording state, the lock, the timers, the capture nor
\* the queue; the handler ends the job (error feedback, no injection, the job
\* is resolved) and frees the worker, again without touching any of these;
\* and after a failure every submitted job, later ones included, ends.
C13_FailureConfined ==
    /\ [][\A w \in Workers :
            (wpc[w] \in {"ensure", "recognize"} /\ wpc'[w] \notin {wpc[w], "recognize", "returned"})
                => /\ wpc'[w] = "failed"
                   /\ wjob'[w] = wjob[w] /\ results' = results
                   /\ <<appVars, capVars, queue, nsubmitted>>' = <<appVars, capVars, queue, nsubmitted>>]_vars
    /\ [][\A w \in Workers :
            (wpc[w] = "failed" /\ wpc'[w] # "failed")
                => /\ wpc'[w] = "idle"
                   /\ results' = Append(results, wjob[w].id)
                   /\ <<appVars, capVars, queue, nsubmitted>>' = <<appVars, capVars, queue, nsubmitted>>]_vars
    /\ (\E w \in Workers : wpc[w] = "failed") ~> (Len(results) = nsubmitted)

\* job 1 is in the handler after its inference or acquisition raised, while
\* the next recording is already in progress
C13_Witness ==
    /\ \E w \in Workers : wpc[w] = "failed" /\ wjob[w].id = 1
    /\ recording /\ stream = "active"

\* C14: when inference succeeds (transcribe returned a text), a text that is
\* empty once its whitespace is trimmed ends the job at once, with neither the
\* injection call nor the error handler; any other text takes the job to the
\* injection call, which is made with that text and is left by the single
\* step that ends the job, so it is made exactly once.
C14_InjectOnceOrSuppress ==
    /\ [][\A w \in Workers :
            (wpc[w] = "returned" /\ wpc'[w] # "returned")
                => IF Strip(wtext[w]) = <<>>
                      THEN wpc'[w] = "idle" /\ results' = Append(results, wjob[w].id)
                      ELSE wpc'[w] = "inject" /\ wtext'[w] = wtext[w] /\ results' = results]_vars
    /\ [][\A w \in Workers :
            (wpc[w] = "inject" /\ wpc'[w] # "inject")
                => wpc'[w] = "idle" /\ results' = Append(results, wjob[w].id)]_vars
    /\ [](\A w \in Workers : wpc[w] = "inject" => Strip(wtext[w]) # <<>>)

\* the worker is about to inject a text that has words in it
C14_Witness ==
    \E w \in Workers : wpc[w] = "inject" /\ wtext[w] = <<" ", "a">> /\ wjob[w].id = 1

\* C15: a toggle never waits for transcription. The mutex is held only by a
\* thread inside toggle_recording's start or stop transition, never across a
\* job: no worker step takes or releases it; the stop transition hands the job
\* to the queue and returns without any worker having moved; and whatever the
\* worker is doing, a thread inside the start or stop transition can finish it
\* and a hotkey press finds the toggle enabled as soon as the mutex is free.
C15_ToggleNeverWaits ==
    /\ [](lock # 0 => lock \in Threads /\ pc[lock] \in {"start", "stop"})
    /\ [][wpc' # wpc => lock' = lock]_vars
    /\ [][\A t \in Threads : StopReturns(t) =>
            /\ Len(queue') = Len(queue) + 1
            /\ queue'[Len(queue')].id = nsubmitted'
            /\ wpc' = wpc /\ wjob' = wjob /\ results' = results
            /\ lock' = 0]_vars
    /\ [](\A t \in Threads :
            /\ pc[t] = "start" => ENABLED StartRecording(t)
            /\ pc[t] = "stop" => ENABLED StopRecording(t)
            /\ (t \in Hotkeys /\ pc[t] = "idle" /\ registered /\ ntoggles < MaxToggles /\ lock = 0)
                  => ENABLED HotkeyToggle(t))

\* job 1 is in inference while a thread holds the mutex inside the stop
\* transition of the next session
C15_Witness ==
    /\ \E w \in Workers : wpc[w] = "recognize" /\ wjob[w].id = 1
    /\ \E t \in Threads : pc[t] = "stop" /\ lock = t

\* the frames of a waveform, as a set
FramesIn(wave) == {wave[i] : i \in DOMAIN wave}
\* the waveforms of the jobs that are queued or running
Waveforms == [i \in 1..(Len(queue) + max_workers) |->
                 IF i <= Len(queue) THEN queue[i].wave ELSE wjob[i - Len(queue)].wave]

C17_FatalStartup ==
    assets = "missing" =>
        /\ exit_code # 0 /\ ~registered
        /\ ntoggles = 0 /\ ntimers = 0 /\ lock = 0 /\ ~recording /\ stream = "none"
        /\ \A t \in Threads : pc[t] \in {"idle", "unused"}
        /\ nsubmitted = 0 /\ queue = <<>> /\ results = <<>>
        /\ \A w \in Workers : wpc[w] = "idle"
        /\ model = 0 /\ mpc = "off"

\* the constructor found no model files and the process has exited with status 1
C17_Witness ==
    assets = "missing" /\ exit_code = 1 /\ ~registered /\ nloads = 0

\* the fields of a configuration that are out of range
OutOfRange(c) ==
    {f \in {"threads"} : c.threads < 0}
    \cup {f \in {"clipboard_clear_delay"} : c.clipboard_clear_delay <= 0}
    \cup {f \in {"paste_mode"} : c.paste_mode # "ctrl" /\ c.paste_mode # "ctrl+shift"}
    \cup {f \in {"model_timeout"} : c.model_timeout < 0}
    \cup {f \in {"max_recording_duration"} :
            c.max_recording_duration < 0 \/ c.max_recording_duration >= 7201}
    \cup {f \in {"start_sound_path"} : c.start_sound_path = "absent"}
    \cup {f \in {"stop_sound_path"} : c.stop_sound_path = "absent"}

C19_TextNotAtInfo ==
    \A i \in DOMAIN log : log[i].level \in Visible => log[i].shows # "text"

C21_OutputPrintable ==
    /\ \A i \in DOMAIN keys :
          keys[i].op = "write" => \A k \in DOMAIN keys[i].text : IsPrintable(keys[i].text[k])
    /\ \A i \in DOMAIN copies : \A k \in DOMAIN copies[i] : IsPrintable(copies[i][k])

\* C22: the monitor drops the instance only in a step of _unload_model made
\* while it holds the manager's lock, and only when in that same critical
\* section an instance is present and the idle duration is past the timeout;
\* when the timestamp was touched after the monitor's first check, so that
\* the duration is no longer past the timeout, _unload_model leaves the
\* instance in place.
C22_RecheckUnderLock ==
    /\ [](mpc \in {"checking", "unloading"} => mlock = "monitor")
    /\ [][(model # 0 /\ model' = 0)
            => mpc = "unloading" /\ mlock = "monitor" /\ idle > timeout]_vars
    /\ [][(mpc = "unloading" /\ mpc' # "unloading")
            => model' = (IF model # 0 /\ idle > timeout THEN 0 ELSE model)]_vars

\* the monitor decided to unload on its first check, a caller then wrote the
\* timestamp, and the monitor is now inside _unload_model's critical section
\* with a loaded, freshly touched handle
C22_Witness ==
    /\ mpc = "unloading" /\ mlock = "monitor"
    /\ model # 0 /\ idle = 0
    /\ \E c \in Callers : cpc[c] = "ensure"

\* C23 as stated: a transcription call that succeeds writes the last-access
\* timestamp a second time once the inference has completed, so when
\* recognize returns the idle duration starts again from zero.
C23_TouchAfterInference ==
    [][\A c \in Callers :
        (cpc[c] = "recognize" /\ cpc'[c] = "returned") => idle' = 0]_vars

\* C24 as stated: when ensure_loaded returns an instance, whether it found it
\* or reloaded it, the last-access timestamp has just been written: the idle
\* duration is measured from that return.
C24_TouchAtAcquireReturn ==
    [][\A c \in Callers :
        (cpc[c] \in {"in_ensure", "loading"} /\ cpc'[c] = "recognize") => idle' = 0]_vars

\* C25: a reload that fails after an eviction fails only the call that
\* attempted it. The failing step leaves the handle empty, releases the lock
\* and lands that caller in its job's handler, while the other caller, the
\* monitor and the earlier outcomes are untouched; the handler ends the job
\* with the error outcome (no text is handed on) and the thread is free for
\* the next job; a later call that finds the handle empty attempts the load
\* again, and that load succeeds when the model files are then available.
C25_ReloadFailureConfined ==
    /\ [](\A c \in Callers : cpc[c] = "loading" => model = 0 /\ mlock = c)
    /\ [][\A c \in Callers :
            (cpc[c] = "loading" /\ cpc'[c] # "loading" /\ assets # "present")
                => /\ cpc'[c] = "failed" /\ cmodel'[c] = 0
                   /\ model' = 0 /\ nloads' = nloads /\ mlock' = "free"
                   /\ mpc' = mpc /\ cout' = cout
                   /\ \A d \in Callers \ {c} : cpc'[d] = cpc[d] /\ cmodel'[d] = cmodel[d]]_vars
    /\ [][\A c \in Callers :
            (cpc[c] = "failed" /\ cpc'[c] # "failed")
                => /\ cpc'[c] = "idle"
                   /\ cout'[c] = (IF cmodel[c] = 0 THEN "load_error" ELSE "inference_error")
                   /\ mdlVars' = mdlVars /\ mlock' = mlock
                   /\ \A d \in Callers \ {c} : cpc'[d] = cpc[d] /\ cout'[d] = cout[d]]_vars
    /\ [][\A c \in Callers :
            (cpc[c] = "in_ensure" /\ cpc'[c] # "in_ensure" /\ model = 0)
                => cpc'[c] = "loading"]_vars
    /\ [][\A c \in Callers :
            (cpc[c] = "loading" /\ cpc'[c] # "loading" /\ assets = "present")
                => /\ cpc'[c] = "recognize"
                   /\ model' = nloads + 1 /\ nloads' = nloads + 1
                   /\ cmodel'[c] = model']_vars

\* the first instance was evicted, this thread's first call failed in the
\* reload while the files were missing, and its next call reloaded the engine
\* and is now running the inference on the second instance
C25_Witness ==
    /\ cout["c1"] = "load_error" /\ cpc["c1"] = "recognize" /\ cmodel["c1"] = 2
    /\ model = 2 /\ nloads = 2 /\ assets = "present"
    /\ cpc["c2"] = "idle" /\ cout["c2"] = "none"

\* the threads inside a critical section of ParakeetManager._lock
InCritical ==
    {c \in Callers : cpc[c] \in {"touching", "in_ensure", "loading"}}
        \cup (IF mpc \in {"checking", "unloading"} THEN {"monitor"} ELSE {})

\* C26: the handle holds at most one instance, the one loaded last, or none.
\* The critical sections that load, unload and read or write the timestamp
\* exclude one another: at most one thread is inside one and it holds the
\* lock; the handle and the timestamp change only in a step of the lock's
\* holder; the monitor is in neither of its critical sections while a load is
\* in progress. A load happens only on an empty handle, so acquires that
\* follow one eviction cause one load, and every acquire returns the instance
\* the handle holds at that instant.
C26_SingleInstanceExclusive ==
    /\ [](model \in {0, nloads})
    /\ [](Cardinality(InCritical) <= 1)
    /\ [](\A x \in InCritical : mlock = x)
    /\ []((\E c \in Callers : cpc[c] = "loading") => mpc \notin {"checking", "unloading"})
    /\ [][model' # model =>
            \/ mlock \in Callers /\ cpc[mlock] = "loading" /\ model = 0
                 /\ model' = nloads + 1 /\ nloads' = nloads + 1
            \/ mlock = "monitor" /\ mpc = "unloading" /\ model' = 0 /\ nloads' = nloads]_vars
    /\ [][nloads' # nloads => model = 0 /\ model' = nloads']_vars
    /\ [][idle' < idle => mlock \in Callers /\ cpc[mlock] = "touching"]_vars
    /\ [][\A c \in Callers :
            (cpc[c] \in {"in_ensure", "loading"} /\ cpc'[c] = "recognize")
                => cmodel'[c] = model' /\ model' # 0 /\ mlock = c /\ mlock' = "free"]_vars
    /\ [](\A c \in Callers : cpc[c] = "recognize" => cmodel[c] \in 1..nloads)

\* after the eviction of the first instance both callers acquired
\* concurrently: one load was made and both run the inference on instance 2
C26_Witness ==
    /\ \A c \in Callers : cpc[c] = "recognize" /\ cmodel[c] = 2
    /\ model = 2 /\ nloads = 2

C28_TimerOnlyIfPositive ==
    /\ [][\A t \in Threads :
            (pc[t] = "start" /\ pc'[t] = Returned(t) /\ recording')
                => IF max_recording_duration > 0
                      THEN /\ ntimers' = ntimers + 1
                           /\ stop_timer' \in TimerThreads
                           /\ pc[stop_timer'] = "unused" /\ pc'[stop_timer'] = "armed"
                      ELSE /\ ntimers' = ntimers /\ stop_timer' = stop_timer
                           /\ \A k \in TimerThreads : pc'[k] = pc[k]]_vars
    /\ [][(ntimers' # ntimers \/ \E k \in TimerThreads : pc[k] # "armed" /\ pc'[k] = "armed")
            => /\ max_recording_duration > 0
               /\ ~recording /\ recording'
               /\ \E t \in Threads : pc[t] = "start" /\ pc'[t] = Returned(t)]_vars
    /\ [](max_recording_duration <= 0 =>
            /\ ntimers = 0 /\ stop_timer = 0
            /\ \A k \in TimerThreads : pc[k] = "unused")
    /\ [][(max_recording_duration <= 0 /\ recording /\ ~recording')
            => lock \in Hotkeys /\ pc[lock] = "stop" /\ last'.by = "hotkey"]_vars

\* a negative duration: a recording was started and was ended by a hotkey
\* toggle, and no timer was ever created
C28_Witness ==
    /\ max_recording_duration < 0
    /\ last.op = "stop" /\ last.by = "hotkey" /\ ~recording
    /\ ntimers = 0 /\ \A k \in TimerThreads : pc[k] = "unused"

\* C29: a job is submitted exactly by the steps that take the state from
\* Recording to Idle, one job per such step, so the number of submitted jobs
\* is the number of these transitions. The job carries the frames the
\* callback delivered since the session's start, all of them frames of the
\* session that ended, and the capture buffer is left empty; a queued job is
\* never altered, and jobs of different sessions hold frames of different
\* sessions. A start, a failed start, a timer firing and a cancelled timer
\* submit nothing.
C29_JobPerCompletedSession ==
    /\ [][(nsubmitted' # nsubmitted \/ Len(queue') > Len(queue)) <=> (recording /\ ~recording')]_vars
    /\ [][(recording /\ ~recording') =>
            /\ nsubmitted' = nsubmitted + 1
            /\ queue' = Append(queue, [id |-> nsubmitted + 1, wave |-> delivered])
            /\ \A i \in DOMAIN delivered : delivered[i].s = nstreams
            /\ frames' = <<>> /\ stream' = "none"]_vars
    /\ [][\A t \in Threads :
            (pc[t] = "start" /\ pc'[t] = Returned(t)) => (nsubmitted' = nsubmitted /\ queue' = queue)]_vars
    /\ [][\A k \in TimerThreads :
            (pc[k] \in {"armed", "cancelled"} /\ pc'[k] \in {"fired", "cancelled"})
                => (nsubmitted' = nsubmitted \/ pc'[k] = "cancelled")]_vars
    /\ [][\A k \in TimerThreads : pc[k] = "cancelled" => pc'[k] = "cancelled"]_vars
    /\ [][\/ queue' = queue
          \/ queue # <<>> /\ queue' = Tail(queue)
          \/ Len(queue') = Len(queue) + 1 /\ SubSeq(queue', 1, Len(queue)) = queue]_vars
    /\ [](\A i, j \in DOMAIN queue : i < j =>
            /\ queue[i].id < queue[j].id
            /\ \A a \in DOMAIN queue[i].wave, b \in DOMAIN queue[j].wave :
                  queue[i].wave[a].s < queue[j].wave[b].s)
    /\ [](nsubmitted <= nstreams)

\* two sessions have ended, the first by a hotkey stop that cancelled its
\* timer, and each job in the queue holds the frame of its own session
C29_Witness ==
    /\ nsubmitted = 2 /\ ~recording /\ lock = 0
    /\ queue = <<[id |-> 1, wave |-> <<Frame(1, 1)>>], [id |-> 2, wave |-> <<Frame(2, 1)>>]>>
    /\ \E k \in TimerThreads : pc[k] = "cancelled"

\* C30 as stated: the clipboard-clear timer is armed only after a paste
\* injection that succeeded: whenever a timer has been armed, the text was
\* copied, the paste keystroke was sent, and neither the copy nor the
\* keystroke failed (no error was logged by inject).
C30_ArmedOnlyAfterPaste ==
    clear_timer # "none" =>
        /\ copies # <<>> /\ keys # <<>>
        /\ \A i \in DOMAIN log : log[i].level # "ERROR"

\* C31 as stated: a timer callback that runs the stop transition stops the
\* session it was armed for: the timer thread inside _stop_recording is the
\* one _stop_timer names, never an earlier session's timer while the current
\* session's own timer is still waiting for its interval to elapse.
C31_TimerStopsOwnSession ==
    \A t \in TimerThreads :
        pc[t] = "stop" => ~(stop_timer # t /\ stop_timer # 0 /\ pc[stop_timer] = "armed")

\* C32 as stated: whenever no toggle_recording call is in progress, the
\* recording flag equals the capture's is_active(): Idle means no stream
\* object, Recording means one.
C32_FlagMatchesCapture ==
    lock = 0 => (recording <=> IsActive)

\* C33 as stated: every paste keystroke pastes the text its own inject call
\* copied; the clear timer of an earlier call never empties the clipboard
\* between a later call's copy and its keystroke.
C33_PastesOwnText ==
    \A i \in DOMAIN pastes : pastes[i].content = TextOf(pastes[i].job)

\* C34 as stated: whenever a recording is going on and max_recording_duration
\* is positive, the session's timer is pending or its callback is running,
\* also after a stop attempt that failed.
C34_RecordingHasCutoff ==
    (recording /\ max_recording_duration > 0)
        => (stop_timer # 0 /\ pc[stop_timer] \in {"armed", "fired", "start", "stop"})

\* C35: every submitted job is eventually started and resolved, given that the
\* worker thread keeps running and each load and inference call returns: for
\* every n, the n-th submitted job does not stay unresolved for ever (jobs are
\* resolved in the order of submission), and a resolution is never withdrawn.
\* A job the worker has started leaves the worker only by being resolved, and
\* no toggle, timer or monitor step touches it.
C35_JobsResolved ==
    /\ \A n \in 1..(MaxToggles + 1) : []<>(nsubmitted < n \/ Len(results) >= n)
    /\ [][/\ \/ results' = results
              \/ \E id \in 1..nsubmitted : results' = Append(results, id)
           /\ \A w \in Workers :
                wpc[w] # "idle" =>
                    \/ wjob'[w] = wjob[w] /\ wpc'[w] # "idle" /\ results' = results
                    \/ wpc'[w] = "idle" /\ results' = Append(results, wjob[w].id)]_vars

\* two jobs were submitted and both are resolved, the second one after an
\* eviction and a reload
C35_Witness ==
    /\ nsubmitted >= 2
    /\ Len(results) = nsubmitted
    /\ nloads >= 2

\* thread t has called toggle_recording and the call has not returned
ToggleRunning(t) == pc[t] \in {"waiting", "fired", "start", "stop", "stopped", "snapshot"}

\* C36: there is no deadlock among ChirpApp._lock, AudioCapture._lock and
\* ParakeetManager._lock: every toggle_recording call, from a hotkey thread
\* or a timer thread, gets the orchestrator lock and returns (no thread stays
\* inside a call for ever), whatever the worker and the monitor do with the
\* model lock. A waiting thread moves on only by getting the orchestrator
\* lock, the capture lock is taken by a toggle only inside the orchestrator
\* lock, and the model lock is held by the worker or the monitor only.
C36_TogglesReturn ==
    /\ \A t \in Threads : []<>(~ToggleRunning(t))
    /\ [][\A t \in Threads :
            (pc[t] \in {"waiting", "fired"} /\ pc'[t] # pc[t]) => lock' = t]_vars
    /\ [](alock = "toggle" => (lock # 0 /\ pc[lock] = "snapshot"))
    /\ [](mlock \in {"free", "monitor", TheWorker})

\* a hotkey toggle waits for the orchestrator lock while a timer's stop waits
\* for the capture lock, which the callback holds, and the worker holds the
\* model lock
C36_Witness ==
    /\ \E t \in Hotkeys : pc[t] = "waiting"
    /\ \E t \in TimerThreads : pc[t] = "stopped" /\ lock = t
    /\ alock = "callback"
    /\ mlock = TheWorker

\* the step takes a job with an empty waveform from the executor's queue
TakesEmpty == Len(queue') < Len(queue) /\ Len(Head(queue).wave) = 0

\* the idle monitor would unload the engine now
EvictionDue == model # 0 /\ EvictionEnabled /\ IdleTooLong

\* C37: a job with an empty waveform leaves the model handle alone. The step
\* that takes it changes neither the last-access timestamp, the handle nor the
\* load count, so an eviction that was due stays due and an evicted engine
\* stays evicted; the timestamp is refreshed, and an evicted engine reloaded,
\* only on behalf of a job that has samples.
C37_EmptyJobLeavesHandle ==
    /\ [][TakesEmpty =>
            /\ idle' = idle /\ model' = model /\ nloads' = nloads
            /\ (EvictionDue => EvictionDue')]_vars
    /\ [][idle' < idle =>
            \E w \in Workers : wpc[w] = "touch" /\ Len(wjob[w].wave) > 0]_vars
    /\ [][nloads' > nloads =>
            \E w \in Workers : wpc[w] = "ensure" /\ Len(wjob[w].wave) > 0 /\ model = 0]_vars

\* the engine is evicted and idle past the timeout, an empty job has been
\* resolved without a reload, and the next queued job is empty too
C37_Witness ==
    /\ model = 0 /\ EvictionEnabled /\ IdleTooLong
    /\ nloads = 1
    /\ results # <<>>
    /\ queue # <<>> /\ Len(Head(queue).wave) = 0
    /\ \A w \in Workers : wpc[w] = "idle"

====
